---- MODULE Spec2Model ----
(***************************************************************************)
(* A model of the walk-journal generator (stroll_story.py and its earlier  *)
(* inline version main.py): GPX data -> transcript -> narrative request -> *)
(* image request -> folium map -> assembled HTML -> output file.           *)
(*                                                                         *)
(* Python values are modelled as records so that values of different       *)
(* kinds can be compared: None is a record of its own, a float carries its *)
(* number, a datetime its instant, a str its characters.  Text (the        *)
(* transcript, an HTML document) is a sequence of fragments, one per piece *)
(* the code concatenates, with the newline a fragment of its own.          *)
(***************************************************************************)
EXTENDS Integers, Sequences, FiniteSets, TLC

VARIABLES
    program,            \* which script runs: "stroll_story" or "main"
    pc,                 \* position of the run in the script
    api_key,            \* os.getenv("GEMINI_API_KEY")
    gpx_file,           \* what the GPX path holds on disk
    gpx_data,           \* result of parse_gpx
    parsed_route_data,  \* result of convert_gpx_to_text
    requests,           \* generate_content calls sent to the backend, in order
    JOURNAL_ENTRY,      \* narrative response
    image_response,     \* image response
    m,                  \* the folium map (argument of build_output_html)
    is_loop,            \* generate_map's local of that name
    HTML_IMAGE,         \* the image blocks, main.py's own variable
    OUTPUT_HTML,        \* result of build_output_html
    files,              \* contents written under OUTPUT_DIR, in order
    raised              \* the exception that ended the run, or None

vars == <<program, pc, api_key, gpx_file, gpx_data, parsed_route_data, requests,
          JOURNAL_ENTRY, image_response, m, is_loop, HTML_IMAGE, OUTPUT_HTML, files, raised>>

----------------------------------------------------------------------------
(* Bounds of the model *)

\* most track points in a GPX input of the function-level specifications
MaxPoints == 3
\* most track points in a GPX input of the pipeline specification
MaxRunPoints == 1
\* most parts in the image response's first candidate
MaxParts == 2
\* most fragments in a map document handed to build_output_html directly
MaxDocLen == 3

----------------------------------------------------------------------------
(* Python values *)

None == [none |-> TRUE]
Float(x) == [float |-> x]
DateTime(t) == [datetime |-> t]
Str(s) == [str |-> s]

\* the outcome of a call: a returned value or a raised exception
Ok(v) == [ok |-> v]
Raise(e) == [raised |-> e]
IsRaise(r) == "raised" \in DOMAIN r

\* str(v), as an f-string formats v
PyStr(v) ==
    IF v = None THEN Str("None")
    ELSE IF "datetime" \in DOMAIN v THEN [chars_of |-> v.datetime, sep |-> " "]
    ELSE v

\* datetime.isoformat()
IsoFormat(t) == [chars_of |-> t.datetime, sep |-> "T"]

\* bool(v) of an optional string
Truthy(v) == v # None /\ v # Str("")

RECURSIVE Concat(_)
Concat(ss) == IF ss = <<>> THEN <<>> ELSE Head(ss) \o Concat(Tail(ss))

RECURSIVE SeqsOfLen(_, _)
SeqsOfLen(S, n) == IF n = 0 THEN { <<>> }
                   ELSE { Append(s, x) : s \in SeqsOfLen(S, n - 1), x \in S }

SeqsUpTo(S, n) == UNION { SeqsOfLen(S, k) : k \in 0..n }

----------------------------------------------------------------------------
(* GPX inputs: what gpxpy.parse returns *)

\* a point of gpxpy (GPXTrackPoint, GPXWaypoint, GPXRoutePoint)
Pt(lat, lon, ele, t, desc) ==
    [latitude |-> Float(lat), longitude |-> Float(lon), elevation |-> ele,
     time |-> t, name |-> None, description |-> desc]

\* Track points: every combination of present/absent elevation and time; the
\* first two share their coordinates and differ in elevation and time, the
\* third differs from them in longitude only, the fourth in latitude only.
TrackPoints ==
    { Pt(45, 75, None, None, None),
      Pt(45, 75, Float(100), DateTime(7), None),
      Pt(45, 76, None, DateTime(7), None),
      Pt(46, 75, Float(100), None, None) }

WptA == Pt(46, 76, None, None, Str("bench"))
WptB == Pt(45, 75, Float(100), DateTime(7), None)

Seg(ps) == [points |-> ps]
Trk(segs) == [name |-> None, segments |-> segs]
Rte(ps) == [name |-> None, points |-> ps]

\* the ways a flat list of track points lies in tracks and segments: no track,
\* a track without segments, one segment, two segments of one track, two tracks
Layouts(ps) ==
    (IF ps = <<>> THEN { <<>>, << Trk(<<>>) >> } ELSE {})
    \cup { << Trk(<< Seg(ps) >>) >> }
    \cup { << Trk(<< Seg(SubSeq(ps, 1, i)), Seg(SubSeq(ps, i + 1, Len(ps))) >>) >>
             : i \in 0..Len(ps) }
    \cup { << Trk(<< Seg(SubSeq(ps, 1, i)) >>), Trk(<< Seg(SubSeq(ps, i + 1, Len(ps))) >>) >>
             : i \in 0..Len(ps) }

\* waypoints and routes beside the tracks
Extras ==
    { [waypoints |-> <<>>, routes |-> <<>>],
      [waypoints |-> << WptA >>, routes |-> <<>>],
      [waypoints |-> <<>>, routes |-> << Rte(<< WptA, WptB >>) >>],
      [waypoints |-> << WptB, WptA >>, routes |-> << Rte(<< WptB >>) >>],
      [waypoints |-> <<>>, routes |-> << Rte(<<>>) >>] }

\* the GPX objects with at most n track points
GpxUpTo(n) ==
    UNION { UNION { { [tracks |-> ts, waypoints |-> e.waypoints, routes |-> e.routes]
                        : ts \in Layouts(ps), e \in Extras }
                    : ps \in SeqsOfLen(TrackPoints, k) } : k \in 0..n }

----------------------------------------------------------------------------
(* convert_gpx_to_text: the transcript, a sequence of fragments *)

NL == [f |-> "\n"]
Lit(s) == [f |-> "lit", s |-> s]
\* a formatted field: its label and the str() of its value
Fmt(label, v) == [f |-> "fmt", label |-> label, v |-> PyStr(v)]

\* f"      Lat: {point.latitude}, Lon: {point.longitude}, "
LatLonText(point) ==
    << Fmt("      Lat: ", point.latitude), Fmt(", Lon: ", point.longitude), Lit(", ") >>

\* f"Elev: {point.elevation}, " when the point has an elevation
ElevText(point) ==
    IF point.elevation # None THEN << Fmt("Elev: ", point.elevation), Lit(", ") >> ELSE <<>>

\* f"Time: {point.time.isoformat()} UTC\n" when the point has a time
TimeText(point) ==
    IF point.time # None THEN << Fmt("Time: ", IsoFormat(point.time)), Lit(" UTC"), NL >> ELSE <<>>

\* the body of "for point in segment.points"
TrackPointText(point) == LatLonText(point) \o ElevText(point) \o TimeText(point)

SegmentText(segment) ==
    << Lit("    Segment Points:"), NL >>
    \o Concat([i \in DOMAIN segment.points |-> TrackPointText(segment.points[i])])

TrackText(track) ==
    << Fmt("  Name: ", track.name), NL >>
    \o Concat([i \in DOMAIN track.segments |-> SegmentText(track.segments[i])])

TracksText(gpx) ==
    IF gpx.tracks # <<>>
    THEN << NL, Lit("Tracks:"), NL >>
         \o Concat([i \in DOMAIN gpx.tracks |-> TrackText(gpx.tracks[i])])
    ELSE <<>>

WaypointText(waypoint) ==
    << Fmt("  Name: ", waypoint.name), Fmt(", Lat: ", waypoint.latitude),
       Fmt(", Lon: ", waypoint.longitude), NL >>
    \o (IF waypoint.elevation # None
        THEN << Fmt("    Elev: ", waypoint.elevation), NL >> ELSE <<>>)
    \o (IF waypoint.time # None
        THEN << Fmt("    Time: ", IsoFormat(waypoint.time)), Lit(" UTC"), NL >> ELSE <<>>)
    \o (IF Truthy(waypoint.description)
        THEN << Fmt("    Description: ", waypoint.description), NL >> ELSE <<>>)

WaypointsText(gpx) ==
    IF gpx.waypoints # <<>>
    THEN << NL, Lit("Waypoints:"), NL >>
         \o Concat([i \in DOMAIN gpx.waypoints |-> WaypointText(gpx.waypoints[i])])
    ELSE <<>>

\* the body of "for point in route.points"
RoutePointText(point) ==
    LatLonText(point) \o ElevText(point) \o TimeText(point)
    \o (IF Truthy(point.description)
        THEN << Fmt("      Description: ", point.description), NL >> ELSE <<>>)

RouteText(route) ==
    << Fmt("  Name: ", route.name), NL, Lit("    Route Points:"), NL >>
    \o Concat([i \in DOMAIN route.points |-> RoutePointText(route.points[i])])

RoutesText(gpx) ==
    IF gpx.routes # <<>>
    THEN << NL, Lit("Routes:"), NL >>
         \o Concat([i \in DOMAIN gpx.routes |-> RouteText(gpx.routes[i])])
    ELSE <<>>

convert_gpx_to_text(gpx) ==
    << Lit("GPX Data:"), NL >> \o TracksText(gpx) \o WaypointsText(gpx) \o RoutesText(gpx)

----------------------------------------------------------------------------
(* generate_map *)

ZoomStart == 14
Weight == 5

SegmentCoordinates(segment) ==
    [i \in DOMAIN segment.points |->
        << segment.points[i].latitude, segment.points[i].longitude, segment.points[i].time >>]

TrackCoordinates(track) ==
    Concat([i \in DOMAIN track.segments |-> SegmentCoordinates(track.segments[i])])

\* the list, had the loops also walked the routes' points
CoordinatesWithRoutes(gpx) ==
    Concat([i \in DOMAIN gpx.tracks |-> TrackCoordinates(gpx.tracks[i])])
    \o Concat([i \in DOMAIN gpx.routes |->
            [j \in DOMAIN gpx.routes[i].points |->
                << gpx.routes[i].points[j].latitude, gpx.routes[i].points[j].longitude,
                   gpx.routes[i].points[j].time >>]])

\* the list built by the three nested loops
Coordinates(gpx) ==
    Concat([i \in DOMAIN gpx.tracks |-> TrackCoordinates(gpx.tracks[i])])

\* is_loop, had the whole (latitude, longitude, time) tuples been compared
IsLoopWholeTuple(coordinates) == coordinates[1] = coordinates[Len(coordinates)]

\* is_loop; coordinates is not empty
IsLoop(coordinates) ==
    LET start_coord == << coordinates[1][1], coordinates[1][2] >>
        end_coord == << coordinates[Len(coordinates)][1], coordinates[Len(coordinates)][2] >>
    IN  start_coord = end_coord

\* the colour, had the last index been taken for len(coordinates)
MarkerColorOffByOne(i, n, loop) ==
    IF i = 0 THEN "green"
    ELSE IF i = n THEN (IF loop THEN "purple" ELSE "red")
    ELSE "blue"

\* the colour, had the end been tested before the start
MarkerColorEndFirst(i, n, loop) ==
    IF i = n - 1 THEN (IF loop THEN "purple" ELSE "red")
    ELSE IF i = 0 THEN "green"
    ELSE "blue"

\* the colour, had the loop flag been ignored
MarkerColorNoLoop(i, n, loop) ==
    IF i = 0 THEN "green"
    ELSE IF i = n - 1 THEN "red"
    ELSE "blue"

\* the colour of the marker at 0-based index i of n, the if/elif of the loop
MarkerColor(i, n, loop) ==
    IF i = 0 THEN "green"
    ELSE IF i = n - 1 THEN (IF loop THEN "purple" ELSE "red")
    ELSE "blue"

Marker(coord, color) ==
    [kind |-> "Marker", location |-> << coord[1], coord[2] >>,
     popup |-> << Str("Time: "), PyStr(coord[3]) >>, icon |-> [color |-> color]]

PolyLine(coordinates) ==
    [kind |-> "PolyLine",
     locations |-> [i \in DOMAIN coordinates |-> << coordinates[i][1], coordinates[i][2] >>],
     color |-> "blue", weight |-> Weight]

\* the map, or the IndexError of coordinates[0] on an empty list
generate_map(gpx_coordinates) ==
    LET coordinates == Coordinates(gpx_coordinates) IN
    IF coordinates = <<>> THEN Raise("IndexError")
    ELSE LET loop == IsLoop(coordinates)
             n == Len(coordinates)
         IN  Ok([kind |-> "Map",
                 location |-> << coordinates[1][1], coordinates[1][2] >>,
                 zoom_start |-> ZoomStart,
                 children |->
                    [i \in 1..n |-> Marker(coordinates[i], MarkerColor(i - 1, n, loop))]
                    \o << PolyLine(coordinates) >>])

----------------------------------------------------------------------------
(* HTML documents: sequences of fragments *)

H(s) == [h |-> s]
BODY == H("<body>")

\* Image.open(...).save(format="PNG") and base64.b64encode(...).decode()
Png(data) == [png_of |-> data]
B64(bytes) == [b64_of |-> bytes]

\* f'<img src="data:image/png;base64,{img_str}" alt="Generated Image"><br><br>'
ImgTag(data) == [h |-> "<img>", src |-> B64(Png(data)), alt |-> "Generated Image"]

\* the <div> with the heading "Walk Summary" and the journal text
JournalHtml(journal_entry) == [h |-> "<div>Walk Summary", p |-> PyStr(journal_entry.text)]

\* m.get_root().render(): folium's page around a map, or the markup of any
\* other element
Render(map) ==
    IF map.kind = "Map"
    THEN << H("<!DOCTYPE html>"), H("<head>"), H("</head>"), BODY,
            [h |-> "<div class=folium-map>"], H("</body>"),
            [h |-> "<script>", map |-> map] >>
    ELSE map.html

\* str.replace(old, new): every occurrence of the fragment old
RECURSIVE Replace(_, _, _)
Replace(doc, old, new) ==
    IF doc = <<>> THEN <<>>
    ELSE (IF Head(doc) = old THEN new ELSE << Head(doc) >>) \o Replace(Tail(doc), old, new)

\* the loop over image.candidates[0].content.parts
HtmlImageOfParts(parts) ==
    Concat([i \in DOMAIN parts |->
        IF parts[i].inline_data # None THEN << ImgTag(parts[i].inline_data.data) >> ELSE <<>>])

HtmlImage(image) ==
    IF image.candidates = <<>> THEN Raise("IndexError")
    ELSE IF image.candidates[1].content = None THEN Raise("AttributeError")
    ELSE Ok(HtmlImageOfParts(image.candidates[1].content.parts))

\* map_html.replace("<body>", f"<body>{journal_html}{html_image}")
Inject(map_html, journal_entry, html_image) ==
    Replace(map_html, BODY, << BODY, JournalHtml(journal_entry) >> \o html_image)

build_output_html(map, journal_entry, image) ==
    LET html_image == HtmlImage(image) IN
    IF IsRaise(html_image) THEN html_image
    ELSE Ok(Inject(Render(map), journal_entry, html_image.ok))

----------------------------------------------------------------------------
(* Prompts and the generative backend *)

get_journal_prompt(route_data, tone, focus, length) ==
    [prompt |-> "journal", length |-> length, tone |-> tone,
     route_data |-> route_data, focus |-> focus]

get_image_prompt(journal_entry) ==
    [prompt |-> "image", journal_entry |-> PyStr(journal_entry)]

\* the presentation arguments: argparse defaults, or main.py's enum members
Args(prog) ==
    IF prog = "stroll_story"
    THEN [tone |-> "neutral", focus |-> "landmarks", length |-> "medium"]
    ELSE [tone |-> "Tone.CRINGE", focus |-> "Focus.LANDMARKS", length |-> "Length.MEDIUM"]

\* what generate_content can return for the journal: a candidate whose text
\* part the response's text property gives, or no candidate, where the
\* property is None
JournalResponses ==
    { [candidates |->
          << [content |-> [parts |-> << [inline_data |-> None,
                                         text |-> Str("<p>walk</p>")] >>]] >>,
       text |-> Str("<p>walk</p>")],
      [candidates |-> <<>>, text |-> None] }

TextPart == [inline_data |-> None, text |-> Str("caption")]
ImagePart(d) == [inline_data |-> [data |-> d], text |-> None]
PartKinds == { TextPart, ImagePart("A"), ImagePart("B") }

\* what generate_content can return for the image: no candidate, a candidate
\* without content, or a candidate with parts
ImageResponses ==
    { [candidates |-> <<>>], [candidates |-> << [content |-> None] >>] }
    \cup { [candidates |-> << [content |-> [parts |-> ps]] >>]
             : ps \in SeqsUpTo(PartKinds, MaxParts) }

----------------------------------------------------------------------------
(* The files and parse_gpx *)

GpxFiles(n) ==
    { [state |-> "missing"], [state |-> "malformed"], [state |-> "unreadable"] }
    \cup { [state |-> "ok", gpx |-> g] : g \in GpxUpTo(n) }

\* None for a missing file (FileNotFoundError) or malformed markup
\* (GPXException); any other error of open() propagates
parse_gpx(file) ==
    IF file.state = "missing" THEN Ok(None)
    ELSE IF file.state = "malformed" THEN Ok(None)
    ELSE IF file.state = "unreadable" THEN Raise("PermissionError")
    ELSE Ok(file.gpx)

----------------------------------------------------------------------------
(* The run of a script, step by step *)

\* a str held by a variable
Doc(frags) == [frags |-> frags]
\* a bool held by a variable
Bool(b) == [bool |-> b]

\* the steps of each script's main block, in program order
\* the steps, had the image request been placed before the narrative request
ScriptImageFirst(prog) ==
    IF prog = "stroll_story"
    THEN << "check_key", "parse", "convert", "image", "journal", "map", "build", "write" >>
    ELSE << "parse", "convert", "check_key", "image", "journal", "html_image", "map",
            "assemble", "write" >>

Script(prog) ==
    IF prog = "stroll_story"
    THEN << "check_key", "parse", "convert", "journal", "image", "map", "build", "write" >>
    ELSE << "parse", "convert", "check_key", "journal", "image", "html_image", "map",
            "assemble", "write" >>

After(prog, step) ==
    LET script == Script(prog)
        i == CHOOSE k \in DOMAIN script : script[k] = step
    IN  IF i = Len(script) THEN "done" ELSE script[i + 1]

Init ==
    /\ program \in { "stroll_story", "main" }
    /\ pc = Script(program)[1]
    /\ api_key \in { None, Str("key") }
    /\ gpx_file \in GpxFiles(MaxRunPoints)
    /\ gpx_data = None
    /\ parsed_route_data = None
    /\ requests = <<>>
    /\ JOURNAL_ENTRY = None
    /\ image_response = None
    /\ m = None
    /\ is_loop = None
    /\ HTML_IMAGE = None
    /\ OUTPUT_HTML = None
    /\ files = <<>>
    /\ raised = None

\* an uncaught exception ends the run
Abort(e) ==
    /\ pc' = "aborted"
    /\ raised' = Raise(e)

Goto(step) ==
    /\ pc' = After(program, step)
    /\ raised' = raised

\* the credential check, had it not raised
CheckApiKeyNoRaise ==
    /\ pc = "check_key"
    /\ Goto("check_key")
    /\ UNCHANGED <<program, api_key, gpx_file, gpx_data, parsed_route_data, requests,
                   JOURNAL_ENTRY, image_response, m, HTML_IMAGE, OUTPUT_HTML, files, is_loop>>

\* api_key = os.getenv("GEMINI_API_KEY"); if api_key is None: raise ValueError
CheckApiKey ==
    /\ pc = "check_key"
    /\ IF api_key = None THEN Abort("ValueError") ELSE Goto("check_key")
    /\ UNCHANGED <<program, api_key, gpx_file, gpx_data, parsed_route_data, requests,
                   JOURNAL_ENTRY, image_response, m, HTML_IMAGE, OUTPUT_HTML, files, is_loop>>

\* gpx_data = parse_gpx(path); if it is None: raise ValueError
ParseGpx ==
    /\ pc = "parse"
    /\ LET r == parse_gpx(gpx_file) IN
        IF IsRaise(r) THEN Abort(r.raised) /\ gpx_data' = gpx_data
        ELSE IF r.ok = None THEN Abort("ValueError") /\ gpx_data' = gpx_data
        ELSE Goto("parse") /\ gpx_data' = r.ok
    /\ UNCHANGED <<program, api_key, gpx_file, parsed_route_data, requests,
                   JOURNAL_ENTRY, image_response, m, HTML_IMAGE, OUTPUT_HTML, files, is_loop>>

\* parsed_route_data = convert_gpx_to_text(gpx_data)
ConvertGpx ==
    /\ pc = "convert"
    /\ parsed_route_data' = Doc(convert_gpx_to_text(gpx_data))
    /\ Goto("convert")
    /\ UNCHANGED <<program, api_key, gpx_file, gpx_data, requests,
                   JOURNAL_ENTRY, image_response, m, HTML_IMAGE, OUTPUT_HTML, files, is_loop>>

\* client.models.generate_content(model="gemini-2.0-flash", ...): the request leaves
JournalSend ==
    /\ pc = "journal"
    /\ requests' = Append(requests,
            [model |-> "gemini-2.0-flash",
             contents |-> get_journal_prompt(parsed_route_data, Args(program).tone,
                                             Args(program).focus, Args(program).length)])
    /\ pc' = "journal_wait"
    /\ UNCHANGED <<program, api_key, gpx_file, gpx_data, parsed_route_data,
                   JOURNAL_ENTRY, image_response, m, HTML_IMAGE, OUTPUT_HTML, files, raised, is_loop>>

\* ... and its response is bound to JOURNAL_ENTRY
JournalReturn ==
    /\ pc = "journal_wait"
    /\ \E r \in JournalResponses : JOURNAL_ENTRY' = r
    /\ Goto("journal")
    /\ UNCHANGED <<program, api_key, gpx_file, gpx_data, parsed_route_data, requests,
                   image_response, m, HTML_IMAGE, OUTPUT_HTML, files, is_loop>>

\* ... or the call raises
JournalFail ==
    /\ pc = "journal_wait"
    /\ Abort("APIError")
    /\ UNCHANGED <<program, api_key, gpx_file, gpx_data, parsed_route_data, requests,
                   JOURNAL_ENTRY, image_response, m, HTML_IMAGE, OUTPUT_HTML, files, is_loop>>

\* client.models.generate_content(model='gemini-2.0-flash-exp',
\* contents=get_image_prompt(JOURNAL_ENTRY.text), ...): the request leaves; a
\* name not bound yet is a NameError
ImageSend ==
    /\ pc = "image"
    /\ IF JOURNAL_ENTRY = None
       THEN Abort("NameError") /\ requests' = requests
       ELSE /\ requests' = Append(requests,
                    [model |-> "gemini-2.0-flash-exp",
                     contents |-> get_image_prompt(JOURNAL_ENTRY.text)])
            /\ pc' = "image_wait"
            /\ raised' = raised
    /\ UNCHANGED <<program, api_key, gpx_file, gpx_data, parsed_route_data,
                   JOURNAL_ENTRY, image_response, m, HTML_IMAGE, OUTPUT_HTML, files, is_loop>>

ImageReturn ==
    /\ pc = "image_wait"
    /\ \E r \in ImageResponses : image_response' = r
    /\ Goto("image")
    /\ UNCHANGED <<program, api_key, gpx_file, gpx_data, parsed_route_data, requests,
                   JOURNAL_ENTRY, m, HTML_IMAGE, OUTPUT_HTML, files, is_loop>>

ImageFail ==
    /\ pc = "image_wait"
    /\ Abort("APIError")
    /\ UNCHANGED <<program, api_key, gpx_file, gpx_data, parsed_route_data, requests,
                   JOURNAL_ENTRY, image_response, m, HTML_IMAGE, OUTPUT_HTML, files, is_loop>>

\* main.py: the loop that fills HTML_IMAGE
BuildHtmlImage ==
    /\ pc = "html_image"
    /\ LET r == HtmlImage(image_response) IN
        IF IsRaise(r) THEN Abort(r.raised) /\ HTML_IMAGE' = HTML_IMAGE
        ELSE Goto("html_image") /\ HTML_IMAGE' = Doc(r.ok)
    /\ UNCHANGED <<program, api_key, gpx_file, gpx_data, parsed_route_data, requests,
                   JOURNAL_ENTRY, image_response, m, OUTPUT_HTML, files, is_loop>>

\* m = generate_map(gpx_data), or main.py's inline copy of it
GenerateMap ==
    /\ pc = "map"
    /\ LET r == generate_map(gpx_data) IN
        IF IsRaise(r) THEN Abort(r.raised) /\ m' = m /\ is_loop' = is_loop
        ELSE /\ Goto("map")
             /\ m' = r.ok
             /\ is_loop' = Bool(IsLoop(Coordinates(gpx_data)))
    /\ UNCHANGED <<program, api_key, gpx_file, gpx_data, parsed_route_data, requests,
                   JOURNAL_ENTRY, image_response, HTML_IMAGE, OUTPUT_HTML, files>>

\* stroll_story.py: OUTPUT_HTML = build_output_html(m, JOURNAL_ENTRY, image_response)
BuildOutputHtml ==
    /\ pc = "build"
    /\ LET r == build_output_html(m, JOURNAL_ENTRY, image_response) IN
        IF IsRaise(r) THEN Abort(r.raised) /\ OUTPUT_HTML' = OUTPUT_HTML
        ELSE Goto("build") /\ OUTPUT_HTML' = Doc(r.ok)
    /\ UNCHANGED <<program, api_key, gpx_file, gpx_data, parsed_route_data, requests,
                   JOURNAL_ENTRY, image_response, m, HTML_IMAGE, files, is_loop>>

\* main.py: MAP_HTML = m.get_root().render(); OUTPUT_HTML = MAP_HTML.replace(...)
Assemble ==
    /\ pc = "assemble"
    /\ OUTPUT_HTML' = Doc(Inject(Render(m), JOURNAL_ENTRY, HTML_IMAGE.frags))
    /\ Goto("assemble")
    /\ UNCHANGED <<program, api_key, gpx_file, gpx_data, parsed_route_data, requests,
                   JOURNAL_ENTRY, image_response, m, HTML_IMAGE, files, is_loop>>

\* with open(OUTPUT_FILEPATH, "w") as file: file.write(OUTPUT_HTML)
WriteOutput ==
    /\ pc = "write"
    /\ files' = Append(files, OUTPUT_HTML)
    /\ Goto("write")
    /\ UNCHANGED <<program, api_key, gpx_file, gpx_data, parsed_route_data, requests,
                   JOURNAL_ENTRY, image_response, m, HTML_IMAGE, OUTPUT_HTML, is_loop>>

Next ==
    \/ CheckApiKey
    \/ ParseGpx
    \/ ConvertGpx
    \/ JournalSend
    \/ JournalReturn
    \/ JournalFail
    \/ ImageSend
    \/ ImageReturn
    \/ ImageFail
    \/ BuildHtmlImage
    \/ GenerateMap
    \/ BuildOutputHtml
    \/ Assemble
    \/ WriteOutput

Spec == Init /\ [][Next]_vars

----------------------------------------------------------------------------
(* The functions on their own: generate_map and convert_gpx_to_text applied  *)
(* to every GPX object of the bounds                                          *)

InitGpx ==
    /\ program = "call"
    /\ pc = "call"
    /\ api_key = None
    /\ gpx_file = None
    /\ gpx_data \in GpxUpTo(MaxPoints)
    /\ parsed_route_data = None
    /\ requests = <<>>
    /\ JOURNAL_ENTRY = None
    /\ image_response = None
    /\ m = None
    /\ is_loop = None
    /\ HTML_IMAGE = None
    /\ OUTPUT_HTML = None
    /\ files = <<>>
    /\ raised = None

CallGenerateMap ==
    /\ pc = "call"
    /\ m = None
    /\ raised = None
    /\ LET r == generate_map(gpx_data) IN
        IF IsRaise(r) THEN raised' = r /\ m' = m /\ is_loop' = is_loop
        ELSE /\ raised' = raised
             /\ m' = r.ok
             /\ is_loop' = Bool(IsLoop(Coordinates(gpx_data)))
    /\ UNCHANGED <<program, pc, api_key, gpx_file, gpx_data, parsed_route_data, requests,
                   JOURNAL_ENTRY, image_response, HTML_IMAGE, OUTPUT_HTML, files>>

CallConvertGpxToText ==
    /\ pc = "call"
    /\ parsed_route_data = None
    /\ parsed_route_data' = Doc(convert_gpx_to_text(gpx_data))
    /\ UNCHANGED <<program, pc, api_key, gpx_file, gpx_data, requests, JOURNAL_ENTRY,
                   image_response, m, HTML_IMAGE, OUTPUT_HTML, files, raised, is_loop>>

NextGpx == CallGenerateMap \/ CallConvertGpxToText

SpecGpx == InitGpx /\ [][NextGpx]_vars

----------------------------------------------------------------------------
(* build_output_html on its own, applied to any element's markup *)

DocFrags == { BODY, H("<div>"), H("</body>") }

Elements == { [kind |-> "Element", html |-> d] : d \in SeqsUpTo(DocFrags, MaxDocLen) }

InitAssemble ==
    /\ program = "call"
    /\ pc = "call"
    /\ api_key = None
    /\ gpx_file = None
    /\ gpx_data = None
    /\ parsed_route_data = None
    /\ requests = <<>>
    /\ JOURNAL_ENTRY \in JournalResponses
    /\ image_response \in ImageResponses
    /\ m \in Elements
    /\ is_loop = None
    /\ HTML_IMAGE = None
    /\ OUTPUT_HTML = None
    /\ files = <<>>
    /\ raised = None

CallBuildOutputHtml ==
    /\ pc = "call"
    /\ OUTPUT_HTML = None
    /\ raised = None
    /\ LET r == build_output_html(m, JOURNAL_ENTRY, image_response) IN
        IF IsRaise(r) THEN raised' = r /\ OUTPUT_HTML' = OUTPUT_HTML
        ELSE raised' = raised /\ OUTPUT_HTML' = Doc(r.ok)
    /\ UNCHANGED <<program, pc, api_key, gpx_file, gpx_data, parsed_route_data, requests,
                   JOURNAL_ENTRY, image_response, m, HTML_IMAGE, files, is_loop>>

NextAssemble == CallBuildOutputHtml

SpecAssemble == InitAssemble /\ [][NextAssemble]_vars

----------------------------------------------------------------------------
(* What the claims speak of *)

\* the route: the points of the tracks' segments, in input order
RECURSIVE RouteFrom(_, _, _)
RouteFrom(gpx, ti, si) ==
    IF ti > Len(gpx.tracks) THEN <<>>
    ELSE IF si > Len(gpx.tracks[ti].segments) THEN RouteFrom(gpx, ti + 1, 1)
    ELSE gpx.tracks[ti].segments[si].points \o RouteFrom(gpx, ti, si + 1)

Route(gpx) == RouteFrom(gpx, 1, 1)

\* the points of the routes (the GPX element of that name), in input order
RECURSIVE RoutePointsFrom(_, _)
RoutePointsFrom(gpx, ri) ==
    IF ri > Len(gpx.routes) THEN <<>>
    ELSE gpx.routes[ri].points \o RoutePointsFrom(gpx, ri + 1)

LatLon(point) == << point.latitude, point.longitude >>
LatLons(points) == [i \in DOMAIN points |-> LatLon(points[i])]

IsMap(v) == v # None /\ v.kind = "Map"
Markers(map) == SelectSeq(map.children, LAMBDA c : c.kind = "Marker")
PolyLines(map) == SelectSeq(map.children, LAMBDA c : c.kind = "PolyLine")

\* the role a marker's colour stands for
RoleOf(marker) ==
    IF marker.icon.color = "green" THEN "start"
    ELSE IF marker.icon.color \in { "red", "purple" } THEN "end"
    ELSE "waypoint"

WithRole(map, role) == { i \in DOMAIN Markers(map) : RoleOf(Markers(map)[i]) = role }

\* generate_map has been called and has returned or raised
MapCalled == m # None \/ raised # None

\* the GPX object with every point's elevation and time replaced
WithOptionals(gpx, ele, t) ==
    [gpx EXCEPT !.tracks =
        [ti \in DOMAIN gpx.tracks |->
            [gpx.tracks[ti] EXCEPT !.segments =
                [si \in DOMAIN gpx.tracks[ti].segments |->
                    [points |->
                        [pi \in DOMAIN gpx.tracks[ti].segments[si].points |->
                            [gpx.tracks[ti].segments[si].points[pi]
                                EXCEPT !.elevation = ele, !.time = t]]]]]]]

----------------------------------------------------------------------------
(* Claims about generate_map, under SpecGpx *)

\* C1 (as stated): on every route of length >= 1 exactly one marker has the
\* start role and exactly one the end role; on a route of length 1 the single
\* point carries both.
C1_OneStartOneEnd ==
    IsMap(m) =>
        /\ Cardinality(WithRole(m, "start")) = 1
        /\ Cardinality(WithRole(m, "end")) = 1

\* C1 (amended): index 0 has the start role and is the only start; on a route
\* of length >= 2 the last index has the end role and is the only end, and
\* every index between is a waypoint; on a route of length 1 the single point
\* has the start role and no point has the end role.
C1_RolesByIndex ==
    IsMap(m) =>
        LET n == Len(Route(gpx_data)) IN
        /\ Len(Markers(m)) = n
        /\ WithRole(m, "start") = { 1 }
        /\ WithRole(m, "end") = (IF n >= 2 THEN { n } ELSE {})
        /\ WithRole(m, "waypoint") = 2..(n - 1)

C1_Witness ==
    /\ IsMap(m)
    /\ Len(Route(gpx_data)) = 3
    /\ WithRole(m, "waypoint") = { 2 }

\* C2: the loop flag is true exactly when the first and the last point of the
\* route have the same (latitude, longitude) pair, and replacing the
\* elevations and timestamps of the points never changes it.
C2_LoopFlag ==
    is_loop # None =>
        LET r == Route(gpx_data) IN
        /\ is_loop.bool = (LatLon(r[1]) = LatLon(r[Len(r)]))
        /\ \A ele \in { None, Float(100) } : \A t \in { None, DateTime(7), DateTime(8) } :
              IsLoop(Coordinates(WithOptionals(gpx_data, ele, t))) = is_loop.bool

C2_Witness ==
    /\ is_loop = Bool(TRUE)
    /\ Len(Route(gpx_data)) >= 2
    /\ Route(gpx_data)[1].time # Route(gpx_data)[Len(Route(gpx_data))].time
    /\ Route(gpx_data)[1].elevation # Route(gpx_data)[Len(Route(gpx_data))].elevation

\* C7: a route with exactly one point does not make generate_map raise; the
\* point gets the start colour, one marker is plotted and the path has one
\* vertex.
C7_SinglePoint ==
    (MapCalled /\ Len(Route(gpx_data)) = 1) =>
        /\ raised = None
        /\ IsMap(m)
        /\ Len(Markers(m)) = 1
        /\ Markers(m)[1].icon.color = "green"
        /\ Markers(m)[1].location = LatLon(Route(gpx_data)[1])
        /\ Len(PolyLines(m)) = 1
        /\ PolyLines(m)[1].locations = << LatLon(Route(gpx_data)[1]) >>

C7_Witness ==
    /\ IsMap(m)
    /\ Len(Route(gpx_data)) = 1

\* C10: on a route of n >= 2 points generate_map plots n markers, one per
\* point in route order, green at index 0, red at the last index of a route
\* that is no loop and purple at the last index of a loop, blue elsewhere; it
\* draws one path whose n vertices are the points in route order, and centres
\* the map on the first point.
C10_MarkersAndPath ==
    (MapCalled /\ Len(Route(gpx_data)) >= 2) =>
        LET r == Route(gpx_data)
            n == Len(r)
            loop == LatLon(r[1]) = LatLon(r[n])
        IN  /\ raised = None
            /\ IsMap(m)
            /\ Len(Markers(m)) = n
            /\ \A i \in 1..n :
                /\ Markers(m)[i].location = LatLon(r[i])
                /\ Markers(m)[i].icon.color =
                      (IF i = 1 THEN "green"
                       ELSE IF i < n THEN "blue"
                       ELSE IF loop THEN "purple" ELSE "red")
            /\ Len(PolyLines(m)) = 1
            /\ PolyLines(m)[1].locations = LatLons(r)
            /\ m.location = LatLon(r[1])

C10_Witness ==
    /\ IsMap(m)
    /\ Len(Route(gpx_data)) = 3
    /\ Markers(m)[3].icon.color = "purple"
    /\ Markers(m)[2].icon.color = "blue"

----------------------------------------------------------------------------
(* Claims about convert_gpx_to_text, under SpecGpx *)

\* the fragment that opens the line of a track point or route point
IsPointStart(fr) == fr.f = "fmt" /\ fr.label = "      Lat: "

\* the fragments the code puts at the start of a line
IsLineStart(fr) ==
    \/ fr.f = "lit" /\ fr.s \in { "GPX Data:", "Tracks:", "    Segment Points:",
                                 "Waypoints:", "Routes:", "    Route Points:" }
    \/ fr.f = "fmt" /\ fr.label \in { "  Name: ", "      Lat: ", "    Elev: ", "    Time: ",
                                     "    Description: ", "      Description: " }

\* C8: every track point and every route point gets exactly one line of its
\* own, terminated by a newline, whichever of elevation and time it carries:
\* its line starts at the start of a line, and it ends with a newline before
\* the text of the next point or section begins.
C8_OneLinePerPoint ==
    parsed_route_data # None =>
        LET t == parsed_route_data.frags
            starts == { i \in DOMAIN t : IsPointStart(t[i]) }
        IN  /\ Cardinality(starts)
                  = Len(Route(gpx_data)) + Len(RoutePointsFrom(gpx_data, 1))
            /\ \A i \in starts :
                /\ i > 1 /\ t[i - 1] = NL
                /\ \E j \in (i + 1)..Len(t) :
                    /\ t[j] = NL
                    /\ \A k \in (i + 1)..(j - 1) : ~IsLineStart(t[k])

\* the transcript's section headings and coordinates, in the order they appear
Skeleton(t) ==
    SelectSeq(t, LAMBDA fr :
        \/ fr.f = "lit" /\ fr.s \in { "Tracks:", "Waypoints:", "Routes:" }
        \/ fr.f = "fmt" /\ fr.label \in { "      Lat: ", ", Lat: ", ", Lon: " })

RECURSIVE CoordinateFrags(_, _)
CoordinateFrags(points, lat_label) ==
    IF points = <<>> THEN <<>>
    ELSE << Fmt(lat_label, Head(points).latitude), Fmt(", Lon: ", Head(points).longitude) >>
         \o CoordinateFrags(Tail(points), lat_label)

\* C9: the markers and the path's vertices are exactly the track/segment
\* points in input order (no waypoint, no route point), while the transcript
\* holds the track points, then the waypoints, then the route points, each
\* kind in input order under its heading.
C9_RenderedAndTranscribed ==
    /\ IsMap(m) =>
        /\ LatLons(Route(gpx_data)) = [i \in DOMAIN Markers(m) |-> Markers(m)[i].location]
        /\ \A i \in DOMAIN PolyLines(m) :
              PolyLines(m)[i].locations = LatLons(Route(gpx_data))
    /\ parsed_route_data # None =>
        Skeleton(parsed_route_data.frags)
          = (IF gpx_data.tracks # <<>> THEN << Lit("Tracks:") >> ELSE <<>>)
            \o CoordinateFrags(Route(gpx_data), "      Lat: ")
            \o (IF gpx_data.waypoints # <<>> THEN << Lit("Waypoints:") >> ELSE <<>>)
            \o CoordinateFrags(gpx_data.waypoints, ", Lat: ")
            \o (IF gpx_data.routes # <<>> THEN << Lit("Routes:") >> ELSE <<>>)
            \o CoordinateFrags(RoutePointsFrom(gpx_data, 1), "      Lat: ")

C9_Witness ==
    /\ IsMap(m)
    /\ parsed_route_data # None
    /\ Len(gpx_data.tracks) = 2
    /\ Len(Route(gpx_data)) = 3
    /\ gpx_data.waypoints # <<>>
    /\ RoutePointsFrom(gpx_data, 1) # <<>>

----------------------------------------------------------------------------
(* Claims about the run, under Spec *)

ImageRequests == { i \in DOMAIN requests : requests[i].contents.prompt = "image" }
JournalRequests == { i \in DOMAIN requests : requests[i].contents.prompt = "journal" }

\* C3: the image prompt is built and the image request sent only after the
\* narrative request of the run has returned: whenever control is at the
\* image call or an image request has been sent, the narrative response is
\* there, the narrative request is the first request and the image request
\* the second, built from the narrative's text; no image request is out
\* while the narrative request is in flight.
C3_NarrativeBeforeImage ==
    /\ (pc \in { "image", "image_wait" } \/ ImageRequests # {}) =>
          /\ JOURNAL_ENTRY # None
          /\ JournalRequests = { 1 }
    /\ \A i \in ImageRequests :
          /\ i = 2
          /\ requests[i].contents = get_image_prompt(JOURNAL_ENTRY.text)
    /\ pc = "journal_wait" => ImageRequests = {}
    /\ Len(requests) <= 2

C3_Witness ==
    /\ pc = "image_wait"
    /\ ImageRequests = { 2 }
    /\ JournalRequests = { 1 }

\* C5: without the credential no request is ever sent and no file written,
\* and the run gets no further than the credential check; with a missing or
\* malformed track file no request is ever sent and no file written, and the
\* run gets no further than parsing.
C5_AbortBeforeRequests ==
    /\ api_key = None =>
          /\ requests = <<>>
          /\ files = <<>>
          /\ pc \in { "check_key", "parse", "convert", "aborted" }
    /\ gpx_file.state \in { "missing", "malformed" } =>
          /\ requests = <<>>
          /\ files = <<>>
          /\ pc \in { "check_key", "parse", "aborted" }
    /\ pc = "aborted" => raised # None

C5_Witness ==
    /\ pc = "aborted"
    /\ raised = Raise("ValueError")
    /\ api_key = None
    /\ gpx_file.state = "ok"

----------------------------------------------------------------------------
(* Claims about build_output_html, under SpecAssemble *)

\* build_output_html has been called and has returned or raised
BuildCalled == OUTPUT_HTML # None \/ raised # None

BodyCount(doc) == Cardinality({ i \in DOMAIN doc : doc[i] = BODY })

\* one image block per part that carries image data, in the order of the parts
RECURSIVE ImageBlocks(_)
ImageBlocks(parts) ==
    IF parts = <<>> THEN <<>>
    ELSE (IF Head(parts).inline_data # None
          THEN << ImgTag(Head(parts).inline_data.data) >> ELSE <<>>)
         \o ImageBlocks(Tail(parts))

\* the document with the narrative block and the image blocks right after its
\* k-th fragment
InjectedAfter(doc, k, journal_entry, parts) ==
    SubSeq(doc, 1, k) \o << JournalHtml(journal_entry) >> \o ImageBlocks(parts)
    \o SubSeq(doc, k + 1, Len(doc))

\* C4: for every map document the result has, right after the body-opening
\* marker, the narrative block, then one image block per part with image
\* data in the order of the parts, then the map content unchanged; without
\* image data the result holds no image tag.
C4_NarrativeImagesMap ==
    OUTPUT_HTML # None =>
        LET doc == Render(m)
            parts == image_response.candidates[1].content.parts
        IN  /\ \E k \in DOMAIN doc :
                 /\ doc[k] = BODY
                 /\ OUTPUT_HTML.frags = InjectedAfter(doc, k, JOURNAL_ENTRY, parts)
            /\ ImageBlocks(parts) = <<>> =>
                 \A i \in DOMAIN OUTPUT_HTML.frags : OUTPUT_HTML.frags[i].h # "<img>"

\* C6: the blocks are injected once, and only when the marker appears exactly
\* once in the rendered map document; with no marker, or more than one, the
\* call fails and returns no document.
C6_FailFastOnMarker ==
    BuildCalled =>
        IF BodyCount(Render(m)) = 1
        THEN OUTPUT_HTML # None =>
                Cardinality({ i \in DOMAIN OUTPUT_HTML.frags :
                                OUTPUT_HTML.frags[i] = JournalHtml(JOURNAL_ENTRY) }) = 1
        ELSE raised # None /\ OUTPUT_HTML = None

\* Where the marker appears exactly once, the order C4 speaks of holds.
AssembleOrderWhenMarkerUnique ==
    (OUTPUT_HTML # None /\ BodyCount(Render(m)) = 1) =>
        LET doc == Render(m)
            k == CHOOSE i \in DOMAIN doc : doc[i] = BODY
        IN  OUTPUT_HTML.frags
              = InjectedAfter(doc, k, JOURNAL_ENTRY,
                              image_response.candidates[1].content.parts)

----------------------------------------------------------------------------
(* Claims about the end of the run, under Spec *)

\* a generate_content response that holds no candidate
NoCandidates(response) == response # None /\ response.candidates = <<>>

\* C11: the output file is written at most once, as the last step, and only
\* after parsing, the narrative call, the image call, map rendering and
\* assembly have all succeeded; a failure in any stage (an exception, a
\* backend response without candidates, tracks without points) ends the run
\* with no output file written and no later stage executed.
C11_WrittenOnceAfterEveryStage ==
    /\ Len(files) <= 1
    /\ files # <<>> =>
          /\ pc = "done"
          /\ raised = None
          /\ gpx_data # None
          /\ JOURNAL_ENTRY # None
          /\ image_response # None
          /\ IsMap(m)
          /\ files = << OUTPUT_HTML >>
    /\ raised # None => (pc = "aborted" /\ files = <<>>)
    /\ NoCandidates(JOURNAL_ENTRY) =>
          /\ files = <<>>
          /\ ImageRequests = {}
          /\ m = None
          /\ OUTPUT_HTML = None
    /\ NoCandidates(image_response) =>
          /\ files = <<>>
          /\ OUTPUT_HTML = None
    /\ (gpx_data # None /\ Route(gpx_data) = <<>>) =>
          /\ files = <<>>
          /\ m = None
          /\ OUTPUT_HTML = None

\* What holds of the write: at most one file, written as the last step from
\* the assembled document, and none once an exception was raised, the image
\* response held no candidate or the tracks held no point.
WrittenOnceWhenNothingRaised ==
    /\ Len(files) <= 1
    /\ files # <<>> =>
          /\ pc = "done"
          /\ raised = None
          /\ gpx_data # None
          /\ JOURNAL_ENTRY # None
          /\ image_response # None
          /\ IsMap(m)
          /\ files = << OUTPUT_HTML >>
    /\ raised # None => (pc = "aborted" /\ files = <<>>)
    /\ NoCandidates(image_response) => (files = <<>> /\ OUTPUT_HTML = None)
    /\ (gpx_data # None /\ Route(gpx_data) = <<>>) =>
          (files = <<>> /\ m = None /\ OUTPUT_HTML = None)

\* A file was written from a narrative response that held no candidate.
WrittenWithoutNarrative ==
    /\ files # <<>>
    /\ NoCandidates(JOURNAL_ENTRY)

====
